---- MODULE Spec2Model ----
(***************************************************************************)
(* A model of gotex (src/main.go): the render entry points Render and      *)
(* RenderToFile of the Options API, RenderToFile of the builder API        *)
(* (texToPDFImpl), the pass loop renderDocument, one pass runLatex, and    *)
(* the two log readers getMergedError / getErrorsFromLog and needsRerun.   *)
(*                                                                         *)
(* The file system is a map from scratch-directory names to what the       *)
(* directory holds (the log file and the pdf).  The external executable is *)
(* the environment: it may fail to start, and when it exits it leaves any  *)
(* log and either exit status.  A log line is a sequence of characters.    *)
(***************************************************************************)
EXTENDS Integers, Sequences, FiniteSets, TLC

\* ------------------------------------------------------------------ bounds

\* Longest log (in lines) the external executable leaves.
MaxLogLen == 2
\* Largest of the small explicit pass counts a caller configures (Options.Runs,
\* Runs(n)); RunsCfg adds one above the automatic ceiling.
MaxRunsCfg == 2
\* Number of names ioutil.TempDir can draw from.
NumDirs == 3

\* ------------------------------------------------------- program constants

\* renderDocument: "var maxRuns = 5", the ceiling of automagic mode.
DefaultMaxRuns == 5

\* ------------------------------------------------------------ log contents

RerunMarker == <<"R","e","r","u","n"," ","t","o"," ","g","e","t">>
ErrorSigil == <<"!">>
ContinuationSigil == <<"<","*",">">>
Separator == <<"|">>
WhiteSpace == {" ", "\t", "\n", "\r"}

LineUndefined == <<"!"," ","U","n","d","e","f","i","n","e","d"," ","c","o","n","t","r","o","l"," ","s","e","q","u","e","n","c","e",".">>
LineBadCmd == <<"<","*",">"," ","\\","b","a","d","c","m","d">>
LineRerun == <<"W",":"," ","R","e","r","u","n"," ","t","o"," ","g","e","t"," ","r","e","f","s"," ","r","i","g","h","t",".">>
LineIndented == <<" ","!"," ","i","n","d","e","n","t","e","d">>
LineTrailing == <<"!"," ","S","t","o","p","."," "," ">>

\* The lines a log of the model is made of.
LogLines == {LineUndefined, LineBadCmd, LineRerun, LineIndented, LineTrailing}

NoErrorFound == <<"N","o"," ","e","r","r","o","r"," ","f","o","u","n","d"," ","e","v","e","n"," ","t","h","o","u","g","h"," ","p","d","f","l","a","t","e","x"," ","s","t","o","p","p","e","d"," ","w","i","t","h"," ","a","n"," ","e","r","r","o","r","."," ","S","o","m","e","t","h","i","n","g"," ","b","a","d"," ","h","a","p","p","e","n","e","d">>

\* All sequences over S of length at most n.
SeqUpTo(S, n) == UNION {[1..k -> S] : k \in 0..n}

\* ------------------------------------------------- strings, regexp matching

\* strings.HasPrefix: the pattern parts "^!" and "^<\*>" of the error matcher.
HasPrefix(s, p) == Len(s) >= Len(p) /\ SubSeq(s, 1, Len(p)) = p

\* The pattern ".*Rerun to get.*": the line contains the phrase somewhere.
Contains(s, p) == \E i \in 1..(Len(s) - Len(p) + 1) : SubSeq(s, i, i + Len(p) - 1) = p

\* strings.TrimSpace: leading and trailing white space removed.
RECURSIVE TrimLeft(_)
TrimLeft(s) == IF s # <<>> /\ Head(s) \in WhiteSpace THEN TrimLeft(Tail(s)) ELSE s

RECURSIVE TrimRight(_)
TrimRight(s) == IF s # <<>> /\ s[Len(s)] \in WhiteSpace THEN TrimRight(SubSeq(s, 1, Len(s) - 1)) ELSE s

TrimSpaceIdentity(s) == s

TrimSpace(s) == TrimLeft(TrimRight(s))

\* strings.Join(elems, sep)
RECURSIVE Join(_, _)
Join(elems, sep) == IF elems = <<>> THEN <<>> ELSE IF Len(elems) = 1 THEN elems[1] ELSE elems[1] \o sep \o Join(Tail(elems), sep)

\* regexp "(^!.*|^<\*>)" applied to one line with MatchString.
ErrorMatcher(line) == HasPrefix(line, ErrorSigil) \/ HasPrefix(line, ContinuationSigil)

\* regexp ".*Rerun to get.*" applied to one line with MatchString.
RerunMatcher(line) == Contains(line, RerunMarker)


\* ------------------------------------------------------------------ errors

\* An error value: the chain of errors.Wrap contexts (outermost first) around a
\* root cause.  A context made with Wrapf and a root *os.PathError carry the path
\* they name (a scratch directory, 0 for none); text is the message of a root
\* made with fmt.Errorf.
Nil == [ctx |-> <<>>, kind |-> "nil", path |-> 0, text |-> <<>>]

NewError(kind, path, text) == [ctx |-> <<>>, kind |-> kind, path |-> path, text |-> text]

\* errors.Wrap(err, msg): msg + ": " + err.Error()
Wrap(e, msg) == [e EXCEPT !.ctx = <<[msg |-> msg, path |-> 0]>> \o @]

\* errors.Wrapf(err, msg + " %s", path)
Wrapf(e, msg, path) == [e EXCEPT !.ctx = <<[msg |-> msg, path |-> path]>> \o @]

\* The labels of the error's contexts, outermost first.
Labels(e) == [i \in 1..Len(e.ctx) |-> e.ctx[i].msg]

\* The error message names directory d.
MentionsDir(e, d) == e.path = d \/ \E i \in 1..Len(e.ctx) : e.ctx[i].path = d

\* --------------------------------------------------------------- log files

\* A log file as the readers see it: whether os.Open succeeds, the lines
\* bufio.Scanner delivers, and whether the scanner then stops with an error
\* (scanner.Err() # nil, e.g. a line longer than its buffer).
NoLog == [exists |-> FALSE, lines |-> <<>>, bad |-> FALSE]

\* The log files of the model: none that can be opened, every log of at most n
\* lines, and every log whose scan stops with an error after at most n - 1 lines.
LogFiles(lines, n) ==
    {NoLog} \cup {[exists |-> TRUE, lines |-> ls, bad |-> FALSE] : ls \in SeqUpTo(lines, n)}
            \cup {[exists |-> TRUE, lines |-> ls, bad |-> TRUE] : ls \in SeqUpTo(lines, n - 1)}

\* getErrorsFromLog: ([]string, error).  builder is TRUE for the builder API,
\* whose messages are capitalised.
getErrorsFromLog(log, d, builder) ==
    IF ~log.exists
    THEN [errs |-> <<>>, err |-> Wrapf(NewError("PathError", d, <<>>), IF builder THEN "Opening logfile" ELSE "opening logfile", d)]
    ELSE IF log.bad
    THEN [errs |-> <<>>, err |-> Wrapf(NewError("ScanError", 0, <<>>), IF builder THEN "Reading logfile" ELSE "reading logfile", d)]
    ELSE LET hits == SelectSeq(log.lines, ErrorMatcher)
         IN  [errs |-> [i \in 1..Len(hits) |-> TrimSpace(hits[i])], err |-> Nil]

getMergedErrorSilent(log, d, builder) ==
    LET r == getErrorsFromLog(log, d, builder)
    IN  IF r.err # Nil THEN Wrap(r.err, "Get errors from pdflatex log")
        ELSE IF Len(r.errs) = 0 THEN Nil
        ELSE NewError("Errorf", 0, Join(r.errs, Separator))

\* getMergedError: the error a pass returns after a nonzero exit.
getMergedError(log, d, builder) ==
    LET r == getErrorsFromLog(log, d, builder)
    IN  IF r.err # Nil THEN Wrap(r.err, "Get errors from pdflatex log")
        ELSE IF Len(r.errs) = 0 THEN NewError("Errorf", 0, NoErrorFound)
        ELSE NewError("Errorf", 0, Join(r.errs, Separator))

needsRerunAlways(log, d) == [rerun |-> TRUE, err |-> Nil]

needsRerunSwallow(log, d) ==
    IF ~log.exists THEN [rerun |-> FALSE, err |-> Nil]
    ELSE [rerun |-> \E i \in 1..Len(log.lines) : RerunMatcher(log.lines[i]), err |-> Nil]

\* needsRerun: (bool, error).  scanner.Err() is not looked at.
needsRerun(log, d) ==
    IF ~log.exists THEN [rerun |-> FALSE, err |-> Wrap(NewError("PathError", d, <<>>), "Open log file")]
    ELSE [rerun |-> \E i \in 1..Len(log.lines) : RerunMatcher(log.lines[i]), err |-> Nil]

printLogFieSilent(log, d) == Nil

\* texToPDFImpl.printLogFie: error (the lines go to the logger).
printLogFie(log, d) ==
    IF ~log.exists THEN Wrapf(NewError("PathError", d, <<>>), "Opening logfile", d) ELSE Nil


\* ------------------------------------------------------------------- state

\* The render calls of the host program and the scratch-directory names.
Calls == {1, 2}
Dirs == 1..NumDirs

\* The three render entry points: Render and RenderToFile of the Options API,
\* RenderToFile of the builder API.
Apis == {"Render", "RenderToFile", "Builder"}

\* The pass counts callers configure: a negative one, 0 (automatic), small
\* explicit ones and one above the automatic ceiling.
RunsCfg == ((-1)..MaxRunsCfg) \cup {DefaultMaxRuns + 1}

\* The configurations of a call: Options{Runs} for the Options API, Runs(n) and
\* Verbose() for the builder API.
Configs == {o \in [api : Apis, Runs : RunsCfg, verbose : BOOLEAN] : o.verbose => o.api = "Builder"}

VARIABLES
    call,   \* call[c]: the locals of render call c and what it has done so far
    fs,     \* fs[d]: the scratch directory named d
    actor   \* the call that took the last step (0 before the first)

vars == <<call, fs, actor>>

\* A directory that does not exist, and one just made by ioutil.TempDir.
\* pdfPass is the pass that wrote the pdf (0 when there is none).
NoDir == [present |-> FALSE, log |-> NoLog, pdf |-> FALSE, pdfPass |-> 0]
EmptyDir == [present |-> TRUE, log |-> NoLog, pdf |-> FALSE, pdfPass |-> 0]

\* A call that has not started.  pc is the place in the code; api, Runs and
\* verbose are the configuration; dir, maxRuns, runs, rerun, exit and err are
\* locals; the rest records what the call did: passes (runLatex invocations),
\* rerunChecks (needsRerun invocations), failedPass (a pass exited nonzero),
\* firstPass (how the first pass ended and what log it left), sawMarker (a
\* successful pass left a log with a rerun line), docResult (what
\* renderDocument returned), artifact (the read or move of the pdf), and
\* dirAtReturn (whether the scratch directory existed when the call returned).
\* Command is options.Command of the callee's copy and caller the
\* configuration value the caller holds; document is the caller's io.Reader
\* and buf what ioutil.ReadAll got from it; children counts the child
\* processes of the call that run.  Further records: docReads (ReadAll
\* calls), stdinFull (every pass so far had the whole document on stdin),
\* waits (returns of cmd.Wait), prints (printLogFie calls), diagnoses
\* (getMergedError calls), launchFailed (cmd.Start failed), delivered (the
\* pass whose pdf was read or moved) and dirAtArtifact (the scratch directory
\* existed at the read or move).
IdleCall == [pc |-> "idle", api |-> "Render", Runs |-> 0, verbose |-> FALSE,
             dir |-> 0, maxRuns |-> 0, runs |-> 0, rerun |-> FALSE, exit |-> "none", err |-> Nil,
             passes |-> 0, rerunChecks |-> 0, failedPass |-> FALSE, firstPass |-> "none",
             sawMarker |-> FALSE, docResult |-> "pending", artifact |-> "none",
             dirAtReturn |-> FALSE,
             Command |-> "", caller |-> [Command |-> "", Runs |-> 0, verbose |-> FALSE],
             document |-> "unread", buf |-> "none", children |-> 0,
             docReads |-> 0, stdinFull |-> TRUE, waits |-> 0, prints |-> 0, diagnoses |-> 0,
             launchFailed |-> FALSE, delivered |-> 0, dirAtArtifact |-> FALSE]

Init ==
    /\ call = [c \in Calls |-> IdleCall]
    /\ fs = [d \in Dirs |-> NoDir]
    /\ actor = 0

\* Call c moves to k.
Step(c, k) == call' = [call EXCEPT ![c] = k] /\ actor' = c

HasRerunLine(log) == log.exists /\ \E i \in 1..Len(log.lines) : RerunMatcher(log.lines[i])

\* ----------------------------------------------------------- entry points

\* The configuration value the caller holds: Options{Runs: n} with Command
\* left empty, or the texToPDFImpl that New made (command "pdflatex").
CallerConfig(o) == [Command |-> IF o.api = "Builder" THEN "pdflatex" ELSE "", Runs |-> o.Runs, verbose |-> o.verbose]

\* A caller invokes Render / RenderToFile with one of the given configurations;
\* the callee gets a copy (options is passed by value, the builder's methods
\* have value receivers).
Invoke(c, configs) ==
    /\ call[c].pc = "idle"
    /\ \E o \in configs :
          Step(c, [call[c] EXCEPT !.pc = "tempdir", !.api = o.api, !.Runs = o.Runs, !.verbose = o.verbose,
                                  !.caller = CallerConfig(o), !.Command = CallerConfig(o).Command])
    /\ UNCHANGED fs

SetDefaultsInCaller(k) == [k EXCEPT !.Command = IF @ = "" THEN "pdflatex" ELSE @,
                                    !.caller.Command = IF @ = "" THEN "pdflatex" ELSE @]

\* "if options.Command == "" { options.Command = "pdflatex" }", on the copy.
SetDefaults(k) == [k EXCEPT !.Command = IF @ = "" THEN "pdflatex" ELSE @]

TempDirNamesAny(f) == Dirs

\* The names ioutil.TempDir may return: it makes a directory that did not exist.
TempDirNames(f) == {d \in Dirs : ~f[d].present}

\* dir, err := ioutil.TempDir(...); on an error the call returns at once,
\* otherwise os.RemoveAll(dir) is deferred.
TempDir(c, names) ==
    /\ call[c].pc = "tempdir"
    /\ \/ \E d \in TempDirNames(fs) \cap names :
             /\ fs' = [fs EXCEPT ![d] = EmptyDir]
             /\ Step(c, [SetDefaults(call[c]) EXCEPT !.pc = "render", !.dir = d])
       \/ /\ Step(c, [SetDefaults(call[c]) EXCEPT !.pc = "done", !.err = Wrap(NewError("PathError", 0, <<>>), "Creating temp dir")])
          /\ UNCHANGED fs

\* ------------------------------------------------------------ renderDocument

\* The for-condition "rerun && runs < maxRuns": the next pass, or the end of
\* the loop (renderDocument returns nil).
LoopNoCeiling(k) ==
    IF k.rerun
    THEN [k EXCEPT !.pc = "start"]
    ELSE [k EXCEPT !.pc = "artifact", !.docResult = "nil"]

LoopErrorAtCeiling(k) ==
    IF k.rerun /\ k.runs < k.maxRuns
    THEN [k EXCEPT !.pc = "start"]
    ELSE IF k.rerun /\ k.Runs = 0
    THEN [k EXCEPT !.pc = "cleanup", !.err = Wrap(NewError("Errorf", 0, <<>>), "Rendering document"), !.docResult = "err"]
    ELSE [k EXCEPT !.pc = "artifact", !.docResult = "nil"]

Loop(k) ==
    IF k.rerun /\ k.runs < k.maxRuns
    THEN [k EXCEPT !.pc = "start"]
    ELSE [k EXCEPT !.pc = "artifact", !.docResult = "nil"]

FailUnwrapped(k, e) == [k EXCEPT !.pc = "cleanup", !.err = e, !.docResult = "err"]

\* renderDocument returns e; the entry point wraps it and returns (the deferred
\* os.RemoveAll runs next).
Fail(k, e) == [k EXCEPT !.pc = "cleanup", !.err = Wrap(e, "Rendering document"), !.docResult = "err"]

MaxRunsIgnoreCfg(r) == DefaultMaxRuns

\* "var maxRuns = 5; if options.Runs > 0 { maxRuns = options.Runs }"
MaxRuns(r) == IF r > 0 THEN r ELSE DefaultMaxRuns

\* buf, err := ioutil.ReadAll(document): the stream is read to its end.
ReadAll(k) == [k EXCEPT !.docReads = @ + 1, !.buf = IF k.document = "unread" THEN "full" ELSE "empty", !.document = "drained"]

StdinFromStream(k) == IF k.passes = 0 THEN "full" ELSE "empty"

\* "document = bytes.NewReader(buf)": what the next pass gets on stdin.
Stdin(k) == k.buf

\* renderDocument up to the loop: the pass budget, and ioutil.ReadAll(document).
renderDocument(c) ==
    /\ call[c].pc = "render"
    /\ LET k == call[c]
           builder == k.api = "Builder"
       IN  \/ Step(c, Loop([ReadAll(k) EXCEPT !.maxRuns = MaxRuns(k.Runs), !.runs = 0, !.rerun = TRUE]))
           \/ Step(c, Fail([k EXCEPT !.maxRuns = MaxRuns(k.Runs), !.docReads = @ + 1],
                           Wrap(NewError("ReadError", 0, <<>>), IF builder THEN "Reading file content" ELSE "Reading file data")))
    /\ UNCHANGED fs

\* ------------------------------------------------------------------ runLatex

CompileLabel(k) == IF k.api = "Builder" THEN "Compile tex to pdf" ELSE "compile tex to pdf"

StartFailedRetried(k) == Loop([k EXCEPT !.launchFailed = TRUE, !.runs = @ + 1])

\* "err := cmd.Start(); if err != nil { return err }"
StartFailed(k) == Fail([k EXCEPT !.launchFailed = TRUE], Wrap(NewError("StartError", 0, <<>>), CompileLabel(k)))

\* runLatex up to cmd.Start(): the child runs in the scratch directory, or the
\* launch fails and runLatex returns the launch error.  A child that runs is
\* writing its log: until it exits the model holds no log in its directory
\* (whatever the child leaves, the log of the earlier pass included, is chosen
\* when it exits).
runLatexStart(c) ==
    /\ call[c].pc = "start"
    /\ LET k == [call[c] EXCEPT !.passes = @ + 1, !.stdinFull = @ /\ Stdin(call[c]) = "full"]
       IN  \/ /\ Step(c, [k EXCEPT !.pc = "running", !.exit = "none", !.children = @ + 1])
              /\ fs' = [fs EXCEPT ![k.dir].log = NoLog]
           \/ /\ Step(c, StartFailed(k))
              /\ UNCHANGED fs

\* The child process ends: it leaves a log (or none that can be opened) in its
\* working directory and, when it exits with status 0, possibly the pdf.
ChildExit(c, logs) ==
    /\ call[c].pc = "running"
    /\ \E l \in logs, ok \in BOOLEAN, p \in BOOLEAN :
          LET d == call[c].dir
          IN  /\ ok \/ p = fs[d].pdf
              /\ fs' = [fs EXCEPT ![d] = [present |-> TRUE, log |-> l, pdf |-> p,
                                          pdfPass |-> IF ~ok THEN fs[d].pdfPass ELSE IF p THEN call[c].passes ELSE 0]]
              /\ Step(c, [call[c] EXCEPT !.pc = "exited", !.exit = IF ok THEN "ok" ELSE "fail", !.children = @ - 1])

\* What the first pass left, for a pass that has exited.
PassOutcome(ok, log) ==
    IF ~ok THEN "fail"
    ELSE IF ~log.exists THEN "ok-nolog"
    ELSE IF HasRerunLine(log) THEN "ok-rerun" ELSE "ok-clean"

PassRetried(k, log) == Loop([k EXCEPT !.runs = @ + 1, !.failedPass = TRUE])

\* A pass exited nonzero: runLatex returns getMergedError, renderDocument
\* wraps it and returns.
PassFailed(k, log) == Fail([k EXCEPT !.failedPass = TRUE, !.diagnoses = @ + 1], Wrap(getMergedError(log, k.dir, k.api = "Builder"), CompileLabel(k)))

\* A pass exited with status 0: "if options.Runs == 0 { rerun, err =
\* needsRerun(...); if err != nil { return err } }", then runs++ and the
\* for-condition.
PassSucceeded(k, log) ==
    IF k.Runs = 0
    THEN LET r == needsRerun(log, k.dir)
             k1 == [k EXCEPT !.rerunChecks = @ + 1, !.sawMarker = @ \/ HasRerunLine(log)]
         IN  IF r.err # Nil
             THEN [k1 EXCEPT !.pc = "cleanup", !.err = Wrap(r.err, "Rendering document"), !.docResult = "err"]
             ELSE Loop([k1 EXCEPT !.rerun = r.rerun, !.runs = @ + 1])
    ELSE Loop([k EXCEPT !.runs = @ + 1, !.sawMarker = @ \/ HasRerunLine(log)])

WaitedWithoutExit(k) == k.pc \in {"running", "exited"}

\* cmd.Wait() returns only when the child has exited.
Waited(k) == k.pc = "exited"

\* cmd.Wait() has returned: the rest of runLatex and of the loop body.  In
\* verbose mode of the builder API the log is printed first, and a failure to
\* open it is returned whatever the exit status was.
runLatexWait(c) ==
    /\ Waited(call[c])
    /\ LET k0 == call[c]
           log == fs[k0.dir].log
           ok == k0.exit # "fail"
           k == [k0 EXCEPT !.firstPass = IF k0.passes = 1 THEN PassOutcome(ok, log) ELSE @,
                           !.waits = @ + 1, !.prints = IF k0.verbose THEN @ + 1 ELSE @]
           printErr == IF k.verbose THEN printLogFie(log, k.dir) ELSE Nil
       IN  IF printErr # Nil
           THEN Step(c, Fail([k EXCEPT !.failedPass = @ \/ ~ok], Wrap(Wrap(printErr, "Printing log file"), CompileLabel(k))))
           ELSE IF ~ok THEN Step(c, PassFailed(k, log))
           ELSE Step(c, PassSucceeded(k, log))
    /\ UNCHANGED fs

\* ------------------------------------------------------- artifact, cleanup

\* Render: ioutil.ReadFile of the pdf.  RenderToFile (both APIs): os.Rename of
\* the pdf to the caller's path.  Either needs the pdf and may fail.
Artifact(c) ==
    /\ call[c].pc = "artifact"
    /\ LET k == call[c]
           label == IF k.api = "Render" THEN "read generated pdf into buffer"
                    ELSE IF k.api = "Builder" THEN "Moving generated pdf to target"
                    ELSE "moving generated pdf to target"
       IN  \/ /\ fs[k.dir].pdf
              /\ Step(c, [k EXCEPT !.pc = "cleanup", !.artifact = "ok", !.delivered = fs[k.dir].pdfPass,
                                   !.dirAtArtifact = fs[k.dir].present])
              /\ fs' = [fs EXCEPT ![k.dir].pdf = IF k.api = "Render" THEN @ ELSE FALSE,
                                  ![k.dir].pdfPass = IF k.api = "Render" THEN @ ELSE 0]
           \/ /\ Step(c, [k EXCEPT !.pc = "cleanup", !.artifact = "failed", !.dirAtArtifact = fs[k.dir].present, !.err = Wrap(NewError("PathError", k.dir, <<>>), label)])
              /\ UNCHANGED fs

RemoveNothing(f, d) == f

\* os.RemoveAll(dir)
RemoveAll(f, d) == [f EXCEPT ![d] = NoDir]

\* The deferred os.RemoveAll(dir) runs and the call returns err.
Return(c) ==
    /\ call[c].pc = "cleanup"
    /\ fs' = RemoveAll(fs, call[c].dir)
    /\ Step(c, [call[c] EXCEPT !.pc = "done", !.dirAtReturn = fs'[call[c].dir].present])

\* ----------------------------------------------------------- specifications

\* One render call, every configuration and every log.
Next ==
    \E c \in {1} :
        \/ Invoke(c, Configs)
        \/ TempDir(c, {1})
        \/ renderDocument(c)
        \/ runLatexStart(c)
        \/ ChildExit(c, LogFiles(LogLines, MaxLogLen))
        \/ runLatexWait(c)
        \/ Artifact(c)
        \/ Return(c)

Spec == Init /\ [][Next]_vars


\* Two render calls of one host program, their steps interleaved, with one or
\* two passes each and short logs.
ConcLogs == LogFiles({LineUndefined}, 1)

ConcConfigs == {[api |-> "RenderToFile", Runs |-> 1, verbose |-> FALSE], [api |-> "Builder", Runs |-> 2, verbose |-> FALSE]}

ConcNext ==
    \E c \in Calls :
        \/ Invoke(c, ConcConfigs)
        \/ TempDir(c, Dirs)
        \/ renderDocument(c)
        \/ runLatexStart(c)
        \/ ChildExit(c, ConcLogs)
        \/ runLatexWait(c)
        \/ Artifact(c)
        \/ Return(c)

ConcSpec == Init /\ [][ConcNext]_vars


\* ------------------------------------------------------------------ claims

\* renderDocument has returned.
PastLoop(k) == k.pc \in {"artifact", "cleanup", "done"}

\* The call holds a scratch directory: TempDir has made it and the deferred
\* removal has not run.
InFlight(k) == k.pc \in {"render", "start", "running", "exited", "artifact", "cleanup"}

\* C1: in automatic mode (pass count 0), when the first pass exits with status
\* 0 and leaves a log without a rerun line, renderDocument has performed
\* exactly one pass and returned nil.
C1_OnePassWithoutRerunLine ==
    \A c \in Calls :
        LET k == call[c]
        IN  (k.Runs = 0 /\ k.firstPass = "ok-clean") => (k.passes = 1 /\ PastLoop(k) /\ k.docResult = "nil")

C1_Witness ==
    \E c \in Calls :
        LET k == call[c]
        IN  k.pc = "done" /\ k.Runs = 0 /\ k.firstPass = "ok-clean" /\ k.passes = 1 /\ k.err = Nil

\* C2: in automatic mode, once a successful pass has left a log with a rerun
\* line the loop does not end before a second pass, and the number of passes
\* never exceeds 5 whatever the logs hold.
C2_RerunLineGivesSecondPass ==
    \A c \in Calls :
        LET k == call[c]
        IN  k.Runs = 0 =>
              /\ k.passes <= 5
              /\ (k.sawMarker /\ PastLoop(k)) => k.passes >= 2

C2_Witness ==
    \E c \in Calls :
        LET k == call[c]
        IN  k.pc = "done" /\ k.Runs = 0 /\ k.passes = 5 /\ k.rerun /\ k.rerunChecks = 5 /\ k.sawMarker

\* C3: with an explicit pass count N > 0 needsRerun is never called, at most N
\* passes run, and when renderDocument returns nil exactly N passes have run,
\* whatever the logs held.
C3_ExplicitPassCount ==
    \A c \in Calls :
        LET k == call[c]
        IN  k.Runs > 0 =>
              /\ k.rerunChecks = 0
              /\ k.passes <= k.Runs
              /\ k.docResult = "nil" => k.passes = k.Runs

C3_Witness ==
    \E c \in Calls :
        LET k == call[c]
        IN  k.pc = "done" /\ k.Runs > 5 /\ k.passes = k.Runs /\ k.sawMarker /\ k.docResult = "nil"

C5_RenderErrorKeepsDir ==
    \A c \in Calls :
        LET k == call[c]
        IN  (k.pc = "done" /\ k.api = "Render" /\ k.dir # 0 /\ k.err # Nil) =>
                (fs[k.dir].present /\ MentionsDir(k.err, k.dir))

\* The first and last positions of line that hold no white space (0 if none).
FirstInk(line) == IF \E i \in 1..Len(line) : line[i] \notin WhiteSpace
                  THEN CHOOSE i \in 1..Len(line) : line[i] \notin WhiteSpace /\ \A j \in 1..(i - 1) : line[j] \in WhiteSpace
                  ELSE 0

LastInk(line) == IF \E i \in 1..Len(line) : line[i] \notin WhiteSpace
                 THEN CHOOSE i \in 1..Len(line) : line[i] \notin WhiteSpace /\ \A j \in (i + 1)..Len(line) : line[j] \in WhiteSpace
                 ELSE 0

\* The line without the white space around it.
Inner(line) == IF FirstInk(line) = 0 THEN <<>> ELSE [i \in 1..(LastInk(line) - FirstInk(line) + 1) |-> line[FirstInk(line) + i - 1]]

\* The line begins with '!' or with '<*>'.
IsErrorLine(line) ==
    \/ Len(line) >= 1 /\ line[1] = "!"
    \/ Len(line) >= 3 /\ line[1] = "<" /\ line[2] = "*" /\ line[3] = ">"

\* The error lines of a log, in log order with '|' between them; each without
\* the white space around it if trim, as it stands in the log otherwise.
RECURSIVE Diagnosis(_, _)
Diagnosis(lines, trim) ==
    IF lines = <<>> THEN <<>>
    ELSE LET rest == Diagnosis(Tail(lines), trim)
             first == IF trim THEN Inner(Head(lines)) ELSE Head(lines)
         IN  IF ~IsErrorLine(Head(lines)) THEN rest
             ELSE IF \E i \in 2..Len(lines) : IsErrorLine(lines[i]) THEN first \o <<"|">> \o rest
             ELSE first

\* A pass of call k has exited nonzero and runLatex has returned the
\* diagnosis of a log that was opened and read.
Diagnosed(k) ==
    /\ k.pc = "cleanup" /\ k.exit = "fail" /\ k.failedPass
    /\ fs[k.dir].log.exists /\ ~fs[k.dir].log.bad

\* C6 as amended: after a pass exits nonzero with a log that can be opened and
\* read and has at least one line beginning with '!' or '<*>', the message is
\* those lines and no others, each once with the white space around it
\* trimmed, in log order, joined by '|'; the log '! Undefined control
\* sequence.', '<*> \badcmd' gives both lines in that order.
C6_DiagnosisIsTrimmedErrorLines ==
    \A c \in Calls :
        LET k == call[c]
            lines == fs[k.dir].log.lines
        IN  (Diagnosed(k) /\ \E i \in 1..Len(lines) : IsErrorLine(lines[i])) =>
              /\ k.err.kind = "Errorf"
              /\ k.err.text = Diagnosis(lines, TRUE)
              /\ lines = <<LineUndefined, LineBadCmd>> => k.err.text = LineUndefined \o <<"|">> \o LineBadCmd

C6_Witness ==
    \E c \in Calls :
        LET k == call[c]
        IN  Diagnosed(k) /\ fs[k.dir].log.lines = <<LineTrailing, LineBadCmd>>
              /\ k.err.text = Inner(LineTrailing) \o <<"|">> \o LineBadCmd

\* C6 as claimed: the message is the matching lines themselves.
C6_DiagnosisIsErrorLines ==
    \A c \in Calls :
        LET k == call[c]
            lines == fs[k.dir].log.lines
        IN  (Diagnosed(k) /\ \E i \in 1..Len(lines) : IsErrorLine(lines[i])) =>
              /\ k.err.kind = "Errorf"
              /\ k.err.text = Diagnosis(lines, FALSE)

\* C7: when a pass exits nonzero and the log, opened and read, has no line
\* beginning with '!' or '<*>', the render returns the 'No error found ...'
\* error: not nil and not an empty message.
C7_NoErrorLineIsReported ==
    \A c \in Calls :
        LET k == call[c]
            lines == fs[k.dir].log.lines
        IN  /\ (Diagnosed(k) /\ \A i \in 1..Len(lines) : ~IsErrorLine(lines[i])) =>
                (k.err.kind = "Errorf" /\ k.err.text = NoErrorFound /\ k.docResult = "err")
            /\ (k.pc = "done" /\ k.failedPass) => (k.err # Nil /\ k.err.kind # "nil" /\ (k.err.kind = "Errorf" => k.err.text # <<>>))

C7_Witness ==
    \E c \in Calls :
        LET k == call[c]
        IN  Diagnosed(k) /\ fs[k.dir].log.lines = <<LineIndented, LineRerun>> /\ k.err.text = NoErrorFound

\* A pass of call k has exited with status 0 in automatic mode (verbose off),
\* the log cannot be opened, and the loop body has run.
NoLogAfterGoodPass(k) ==
    /\ k.Runs = 0 /\ ~k.verbose
    /\ k.pc \in {"artifact", "cleanup"} /\ k.artifact = "none"
    /\ k.exit = "ok" /\ ~fs[k.dir].log.exists

C9_FailedPassEndsRender ==
    \A c \in Calls :
        LET k == call[c]
        IN  k.failedPass =>
              /\ k.pc \in {"cleanup", "done"}
              /\ k.passes = k.runs + 1
              /\ k.rerunChecks = (IF k.Runs = 0 THEN k.runs ELSE 0)
              /\ k.artifact = "none"
              /\ k.docResult = "err" /\ k.err # Nil

C9_Witness ==
    \E c \in Calls :
        LET k == call[c]
        IN  k.pc = "done" /\ k.failedPass /\ k.exit = "fail" /\ k.runs = 2 /\ k.passes = 3 /\ k.err # Nil

\* C10: of two render calls in flight, each made a directory that did not
\* exist before, the two directories differ, and no step of one call (a pass,
\* the move of the pdf, the deferred removal) changes the directory of the
\* other.
C10_ScratchDirsIsolated ==
    [][/\ \A c \in Calls, o \in Calls :
             (c # o /\ InFlight(call'[c]) /\ InFlight(call'[o])) => call'[c].dir # call'[o].dir
       /\ \A c \in Calls :
             (call[c].pc = "tempdir" /\ call'[c].pc = "render") =>
                 (~fs[call'[c].dir].present /\ fs'[call'[c].dir] = EmptyDir)
       /\ \A o \in Calls :
             (InFlight(call[o]) /\ actor' # o) => fs'[call[o].dir] = fs[call[o].dir]]_vars

C10_Witness ==
    /\ \A c \in Calls : call[c].pc = "exited" /\ fs[call[c].dir].log.exists
    /\ call[1].dir # call[2].dir
    /\ call[1].passes = 1 /\ call[2].passes = 2


\* The outermost label of an error ("" if it has none).
Phase(e) == IF Len(e.ctx) = 0 THEN "" ELSE e.ctx[1].msg

ArtifactLabels == {"read generated pdf into buffer", "moving generated pdf to target", "Moving generated pdf to target"}

\* C11: every error a render entry point returns has as its outermost label
\* the phase that failed: 'Creating temp dir' when no scratch directory was
\* made, 'Rendering document' when renderDocument failed, and a read/move
\* label, different from 'Rendering document', when the artifact step failed
\* after all passes succeeded.
C11_ErrorsCarryPhase ==
    \A c \in Calls :
        LET k == call[c]
        IN  (k.pc = "done" /\ k.err # Nil) =>
              /\ Phase(k.err) \in {"Creating temp dir", "Rendering document"} \cup ArtifactLabels
              /\ Phase(k.err) = "Creating temp dir" <=> k.dir = 0
              /\ Phase(k.err) = "Rendering document" <=> k.docResult = "err"
              /\ Phase(k.err) \in ArtifactLabels <=> (k.artifact = "failed" /\ k.docResult = "nil")
              /\ "Rendering document" \notin ArtifactLabels

C11_Witness ==
    \E c \in Calls :
        LET k == call[c]
        IN  k.pc = "done" /\ k.artifact = "failed" /\ k.passes = 2 /\ ~k.failedPass
              /\ Phase(k.err) = "moving generated pdf to target"


\* C12: for every pass count that is not greater than 0 the render is in
\* automatic mode: needsRerun is called after each successful pass, the loop
\* ends after the first pass whose log has no rerun line, and at most 5 passes
\* run.
C12_NonPositiveCountIsAutomatic ==
    \A c \in Calls :
        LET k == call[c]
        IN  (k.pc # "idle" /\ k.Runs <= 0) =>
              /\ k.passes <= 5
              /\ k.pc \in {"start", "artifact"} => k.rerunChecks = k.runs
              /\ k.firstPass = "ok-clean" => (k.passes = 1 /\ PastLoop(k))


\* C13: the steps of one render are sequential: a pass is started only when
\* no child of the call runs and the exit of every earlier pass has been
\* observed, needsRerun reads the log of a pass only after that pass's exit
\* has been observed, and never do two children of one render run.
C13_PassesAreSequential ==
    [][\A c \in Calls :
          LET k == call[c]
              n == call'[c]
          IN  /\ n.children <= 1
              /\ n.passes > k.passes => (k.children = 0 /\ k.waits = k.passes)
              /\ n.rerunChecks > k.rerunChecks => (k.children = 0 /\ k.exit = "ok" /\ n.waits = n.passes)]_vars

C13_Witness ==
    \E c \in Calls :
        LET k == call[c]
        IN  k.pc = "running" /\ k.children = 1 /\ k.passes = 3 /\ k.waits = 2 /\ k.rerunChecks = 2

\* C14: when cmd.Start fails the render ends at once with the launch error:
\* getMergedError, needsRerun and printLogFie are not called for that pass, no
\* further pass is started and no artifact is read or moved.  (runs counts the
\* passes that succeeded before.)
C14_LaunchFailureEndsRender ==
    \A c \in Calls :
        LET k == call[c]
        IN  k.launchFailed =>
              /\ k.pc \in {"cleanup", "done"}
              /\ k.err.kind = "StartError"
              /\ Labels(k.err) = <<"Rendering document", IF k.api = "Builder" THEN "Compile tex to pdf" ELSE "compile tex to pdf">>
              /\ k.passes = k.runs + 1 /\ k.waits = k.runs
              /\ k.diagnoses = 0
              /\ k.rerunChecks = (IF k.Runs = 0 THEN k.runs ELSE 0)
              /\ k.prints = (IF k.verbose THEN k.runs ELSE 0)
              /\ k.artifact = "none" /\ k.docResult = "err"

C14_Witness ==
    \E c \in Calls :
        LET k == call[c]
        IN  k.pc = "done" /\ k.launchFailed /\ k.passes = 2 /\ k.Runs = 0 /\ k.rerunChecks = 1 /\ k.err.kind = "StartError"

\* C15: a render leaves the configuration value of its caller as it was
\* (command, pass count, verbose): the defaults are set on the callee's copy.
C15_CallerConfigUnchanged ==
    [][\A c \in Calls :
          /\ call[c].pc # "idle" => call'[c].caller = call[c].caller
          /\ call'[c].pc # "idle" => (call'[c].caller.Runs = call'[c].Runs /\ call'[c].caller.verbose = call'[c].verbose)]_vars

C15_Witness ==
    \E c \in Calls :
        LET k == call[c]
        IN  k.pc = "done" /\ k.api = "Render" /\ k.caller.Command = "" /\ k.Command = "pdflatex" /\ k.caller.Runs = 2 /\ k.passes = 2

\* C16: in automatic mode, when the log still has a rerun line after the 5th
\* successful pass, the loop ends and renderDocument returns nil; the pdf that
\* is read or moved is the one the 5th pass wrote, and the render returns an
\* error only if that read or move fails.
C16_CeilingIsNoError ==
    \A c \in Calls :
        LET k == call[c]
        IN  (k.Runs = 0 /\ k.runs = 5 /\ k.rerun) =>
              /\ PastLoop(k) /\ k.docResult = "nil" /\ k.passes = 5
              /\ k.artifact = "ok" => (k.delivered = 5 /\ k.err = Nil)
              /\ k.err # Nil => k.artifact = "failed"

C16_Witness ==
    \E c \in Calls :
        LET k == call[c]
        IN  k.pc = "done" /\ k.Runs = 0 /\ k.runs = 5 /\ k.rerun /\ k.artifact = "ok" /\ k.delivered = 5 /\ k.err = Nil

\* C17: the document stream is read once, by ioutil.ReadAll before the first
\* pass, and every pass gets the whole document on its standard input.
C17_EveryPassGetsWholeDocument ==
    \A c \in Calls :
        LET k == call[c]
        IN  /\ k.docReads <= 1
            /\ k.passes >= 1 => (k.docReads = 1 /\ k.buf = "full" /\ k.stdinFull)

C17_Witness ==
    \E c \in Calls :
        LET k == call[c]
        IN  k.pc = "done" /\ k.passes = 6 /\ k.runs = 6 /\ k.stdinFull /\ k.docReads = 1

\* C18: the pdf is read or moved only after the loop has ended with at least
\* one pass performed and every performed pass exited with status 0, and
\* while the scratch directory still exists.
C18_ArtifactAfterGoodPasses ==
    \A c \in Calls :
        LET k == call[c]
        IN  k.artifact # "none" =>
              /\ k.docResult = "nil"
              /\ k.passes >= 1 /\ k.runs = k.passes /\ k.waits = k.passes
              /\ ~k.failedPass /\ ~k.launchFailed
              /\ k.dirAtArtifact
              /\ k.pc = "cleanup" => fs[k.dir].present

C18_Witness ==
    \E c \in Calls :
        LET k == call[c]
        IN  k.pc = "cleanup" /\ k.artifact = "ok" /\ k.passes = 2 /\ fs[k.dir].present

\* A pass of call k has ended in verbose mode with a log that cannot be opened.
VerboseNoLog(k) ==
    /\ k.verbose /\ k.pc = "cleanup" /\ k.artifact = "none"
    /\ k.exit # "none" /\ ~k.launchFailed
    /\ ~fs[k.dir].log.exists

\* C19: in verbose mode of the builder the log is printed once per pass, when
\* the exit has been observed and before the exit status is acted on; if the
\* log cannot be opened the pass returns a 'Printing log file' error whatever
\* the exit status (no diagnosis, no rerun detection, the pass does not count
\* as succeeded), and with verbose off a pass that exited with status 0
\* succeeds without a log.
C19_VerbosePrintFailureFailsPass ==
    \A c \in Calls :
        LET k == call[c]
        IN  /\ k.prints = (IF k.verbose THEN k.waits ELSE 0)
            /\ VerboseNoLog(k) =>
                 /\ Labels(k.err) = <<"Rendering document", "Compile tex to pdf", "Printing log file", "Opening logfile">>
                 /\ k.diagnoses = 0
                 /\ k.runs = k.passes - 1
                 /\ k.rerunChecks = (IF k.Runs = 0 THEN k.runs ELSE 0)
            /\ (~k.verbose /\ k.Runs # 0 /\ k.exit = "ok" /\ k.pc \in {"start", "artifact"} /\ ~fs[k.dir].log.exists) =>
                 (k.err = Nil /\ k.runs = k.passes)

C19_Witness ==
    \E c \in Calls :
        LET k == call[c]
        IN  VerboseNoLog(k) /\ k.exit = "ok" /\ k.passes = 2 /\ k.Runs = 2
              /\ Labels(k.err) = <<"Rendering document", "Compile tex to pdf", "Printing log file", "Opening logfile">>

====
